---- MODULE Spec2Model ----
(***************************************************************************)
(* Session registry and action executor of the Playwright action API       *)
(* (session_manager.py).  Every coroutine is modelled as a caller that     *)
(* moves from one await to the next; the code between two awaits is one    *)
(* atomic step, as under asyncio's cooperative scheduling.                  *)
(*                                                                         *)
(* The browser driver (playwright) is the environment: every awaited       *)
(* driver operation either completes or raises, chosen nondeterministically*)
(* within DriverOutcomes / ReleaseOutcomes below.                          *)
(***************************************************************************)
EXTENDS Integers, Sequences, FiniteSets, TLC

\* ---------------------------------------------------------------- bounds
\* number of uuid4 values that can be drawn (one per start_session call)
MaxIds == 2

Ids == 1..MaxIds

\* Coroutines in flight.  c1 alone issues the sequential histories of SeqSpec.
Callers == {"c1", "c2"}
SeqCallers == {"c1"}

\* ------------------------------------------------------ inputs of the calls
\* browser_type strings handed to start_session
BrowserInputs == {"chromium", "firefox", "webkit", "Chromium", "opera"}

\* str.lower() on the inputs above
Lower(bt) == IF bt = "Chromium" THEN "chromium" ELSE bt

\* the launch branch start_session takes for browser_type: its engine name,
\* or "else" for the final else branch
LaunchBranch(bt) ==
    IF Lower(bt) = "chromium" THEN "chromium"
    ELSE IF Lower(bt) = "firefox" THEN "firefox"
    ELSE IF Lower(bt) = "webkit" THEN "webkit"
    ELSE "else"

\* an Optional[...] value: None, or a value that was supplied
None == [some |-> FALSE, val |-> 0]
Some(v) == [some |-> TRUE, val |-> v]

\* viewport_width, viewport_height and device_scale_factor of a
\* StartSessionRequest: each None or a number
Widths == {None, Some(0), Some(1280)}
Heights == {None, Some(720)}
ScaleFactors == {None, Some(2)}
Requests == [viewport_width : Widths, viewport_height : Heights, device_scale_factor : ScaleFactors]
NoRequest == [viewport_width |-> None, viewport_height |-> None, device_scale_factor |-> None]

\* the viewport value the handler builds: None, or a dict; a key the dict does
\* not hold is None here
NoViewport == [isDict |-> FALSE, width |-> None, height |-> None, device_scale_factor |-> None]

\* viewport = None; if request.viewport_width is not None or ...: the variant
\* that builds the dict from either dimension
AppViewportEitherDimension(request) ==
    IF request.viewport_width.some \/ request.viewport_height.some
    THEN [isDict |-> TRUE, width |-> request.viewport_width, height |-> request.viewport_height,
          device_scale_factor |-> request.device_scale_factor]
    ELSE NoViewport

\* viewport = None; if request.viewport_width is not None and
\* request.viewport_height is not None: viewport = {width, height}, and
\* viewport["device_scale_factor"] when that is not None
AppViewport(request) ==
    IF request.viewport_width.some /\ request.viewport_height.some
    THEN [isDict |-> TRUE, width |-> request.viewport_width, height |-> request.viewport_height,
          device_scale_factor |-> request.device_scale_factor]
    ELSE NoViewport

\* truth value of a viewport argument: None and the empty dict are false
Truthy(viewport) ==
    /\ viewport.isDict
    /\ viewport.width.some \/ viewport.height.some \/ viewport.device_scale_factor.some

\* context_options = {}; if viewport: context_options['viewport'] = viewport
\* (an absent 'viewport' key is NoViewport here)
ContextOptions(viewport) == [viewport |-> IF Truthy(viewport) THEN viewport ELSE NoViewport]

\* validate_browser of StartSessionRequest: rejects a kind outside the
\* supported ones, and hands on the lower-cased kind
ValidBrowser(v) == Lower(v) \in {"chromium", "firefox", "webkit"}

\* A locator argument: None, a str, or a dict with some of the keys role, name
NoLocator == [type |-> "none", keys |-> {}]
StrLocator == [type |-> "str", keys |-> {}]
DictLocator(ks) == [type |-> "dict", keys |-> ks]
Locators == {NoLocator, StrLocator} \cup {DictLocator(ks) : ks \in SUBSET {"role", "name"}}

\* the isinstance / key tests of the locator dispatch
IsStructuredRoleOnly(loc) == loc.type = "dict" /\ "role" \in loc.keys

IsStructured(loc) == loc.type = "dict" /\ "role" \in loc.keys /\ "name" \in loc.keys

\* The page content seen by one call: the queries that match at least one
\* node (element.count() is nonzero for exactly these).
Strategies == {"css", "role", "text", "aria", "hastext"}
NoMatches == {}
RelevantQueries(loc) ==
    IF loc.type = "str" THEN {"css"}
    ELSE IF loc.type = "dict" /\ loc.keys = {"role", "name"} THEN {"role", "text", "aria", "hastext"}
    ELSE {}
Doms(loc) == SUBSET RelevantQueries(loc)
\* whether page.get_by_role(...) raises while building the query; a query that
\* raises matches nothing
RoleRaises(loc, dom) ==
    IF loc.type = "dict" /\ loc.keys = {"role", "name"} /\ "role" \notin dom THEN BOOLEAN ELSE {FALSE}

\* action names handed to execute_action
ActionInputs == {"goto", "click", "fill", "hover", "scroll"}

\* the element operation the dispatch chain invokes for an action name
\* ("" for the final else branch, which raises ValueError)
ElementOp(action) ==
    CASE action = "click" -> "element.click"
      [] action = "fill" -> "element.fill"
      [] action = "type" -> "element.type"
      [] action = "hover" -> "element.hover"
      [] action = "focus" -> "element.focus"
      [] action = "press" -> "element.press"
      [] action = "check" -> "element.check"
      [] action = "uncheck" -> "element.uncheck"
      [] action = "select_option" -> "element.select_option"
      [] action = "upload_file" -> "element.set_input_files"
      [] action = "dblclick" -> "element.dblclick"
      [] OTHER -> ""

\* ------------------------------------------------------------ results
NoRet == [kind |-> "none", val |-> "", id |-> 0, shot |-> 0, exc |-> "", msg |-> "", cause |-> ""]
ReturnBool(b) == [NoRet EXCEPT !.kind = "return", !.val = IF b THEN "True" ELSE "False"]
ReturnId(s) == [NoRet EXCEPT !.kind = "return", !.val = "id", !.id = s]
\* (success, screenshot): shot is the position in the call's trace of the
\* page.screenshot() whose bytes are returned
ReturnShot(b, at) == [NoRet EXCEPT !.kind = "return", !.val = IF b THEN "True" ELSE "False", !.shot = at]
Raise(exc, msg, cause) == [NoRet EXCEPT !.kind = "raise", !.exc = exc, !.msg = msg, !.cause = cause]
\* an exception raised by the driver in operation op
DriverError(op) == Raise("Error", op, "")

\* ------------------------------------------------------------ state
VARIABLES
    sessions,   \* the registry: session id -> {playwright, browser, context, page}
    res,        \* state of the driver objects started for each uuid
    issued,     \* uuid4 values drawn so far
    pc,         \* each caller's await point
    call,       \* each caller's current (or last) call and its arguments
    local,      \* each caller's local variables
    trace,      \* driver operations invoked by the caller's current (or last) call
    ret,        \* outcome of the caller's last finished call
    created,    \* history: ids returned by start_session
    closeCalled \* history: ids returned by start_session on which close_session was called

vars == <<sessions, res, issued, pc, call, local, trace, ret, created, closeCalled>>

NoCall == [op |-> "none", sid |-> 0, bt |-> "", action |-> "", loc |-> NoLocator,
           dom |-> NoMatches, roleRaises |-> FALSE,
           viewport |-> NoViewport, request |-> NoRequest]
NoBundle == [playwright |-> 0, browser |-> 0, context |-> 0, page |-> 0]
NoLocal == [session |-> NoBundle, element |-> "", err |-> "", step |-> 0, first |-> FALSE,
            context_options |-> ContextOptions(NoViewport)]
FreshRes == [playwright |-> "none", browser |-> "none", context |-> "none", page |-> "none"]

\* sessions = {} at import
Init ==
    /\ sessions = [i \in Ids |-> NoBundle]
    /\ res = [i \in Ids |-> FreshRes]
    /\ issued = {}
    /\ pc = [p \in Callers |-> "idle"]
    /\ call = [p \in Callers |-> NoCall]
    /\ local = [p \in Callers |-> NoLocal]
    /\ trace = [p \in Callers |-> <<>>]
    /\ ret = [p \in Callers |-> NoRet]
    /\ created = {}
    /\ closeCalled = {}

\* ------------------------------------------------------------ the driver
\* Outcomes of an awaited acquisition (start, launch, new_context, new_page):
\* TRUE = completes, FALSE = raises.
AcquireOutcomes == BOOLEAN

\* Outcomes of an awaited release (close, stop) of a driver object.
ReleaseOutcomes == BOOLEAN

\* Outcomes of an awaited page or element operation on a page in state st.
\* A closed page fails every operation.
DriverOutcomes(st) == IF st = "live" THEN BOOLEAN ELSE {FALSE}

\* page.screenshot() completes whenever the page is live.
ScreenshotOutcomes(st) == IF st = "live" THEN {TRUE} ELSE {FALSE}

\* ------------------------------------------------------------ helpers
\* uuid.uuid4(): a value never drawn before
Uuid4ReusesClosed ==
    CHOOSE i \in Ids : sessions[i] = NoBundle /\ \A j \in Ids : sessions[j] = NoBundle => i <= j

Uuid4Repeating == CHOOSE i \in Ids : \A j \in Ids : i <= j

Uuid4 == CHOOSE i \in Ids : i \notin issued /\ \A j \in Ids \ issued : i <= j

\* the call of caller p invokes driver operation op on object `on`; ok tells
\* whether the operation completes (TRUE) or raises (FALSE)
Log(p, op, on, ok) == trace' = [trace EXCEPT ![p] = Append(@, [op |-> op, on |-> on, ok |-> ok])]

\* the call of caller p ends with outcome r
Finish(p, r) ==
    /\ pc' = [pc EXCEPT ![p] = "done"]
    /\ ret' = [ret EXCEPT ![p] = r]

Goto(p, label) ==
    /\ pc' = [pc EXCEPT ![p] = label]
    /\ UNCHANGED ret

SetRes(h, field, st) == res' = [res EXCEPT ![h][field] = st]

\* session_id in sessions
InSessions(s) == sessions[s] # NoBundle

Registered == {s \in Ids : InSessions(s)}

\* a call begins: arguments bound, locals and trace fresh
Begin(p, c, l) ==
    /\ pc[p] = "idle"
    /\ call' = [call EXCEPT ![p] = c]
    /\ local' = [local EXCEPT ![p] = l]
    /\ UNCHANGED trace

\* driver objects started under uuid i are referenced by the registry or by
\* the frame of a caller other than p
Referenced(i, p) ==
    \/ \E s \in Ids : i \in {sessions[s].playwright, sessions[s].browser, sessions[s].context, sessions[s].page}
    \/ \E q \in Callers \ {p} :
          \/ pc[q] # "idle" /\ call[q].op = "start" /\ call[q].sid = i
          \/ i \in {local[q].session.playwright, local[q].session.browser,
                     local[q].session.context, local[q].session.page}

\* the caller takes the outcome of its finished call; the coroutine's frame is
\* gone, and driver objects nothing refers to any more are no longer tracked
Resume(p) ==
    /\ pc[p] = "done"
    /\ pc' = [pc EXCEPT ![p] = "idle"]
    /\ call' = [call EXCEPT ![p] = NoCall]
    /\ local' = [local EXCEPT ![p] = NoLocal]
    /\ trace' = [trace EXCEPT ![p] = <<>>]
    /\ ret' = [ret EXCEPT ![p] = NoRet]
    /\ res' = [i \in Ids |-> IF Referenced(i, p) THEN res[i] ELSE FreshRes]
    /\ UNCHANGED <<sessions, issued, created, closeCalled>>

\* ------------------------------------------------------------ start_session
\* the bundle stored for a session whose objects were started under uuid s
Bundle(s) == [playwright |-> s, browser |-> s, context |-> s, page |-> s]

\* session_id = str(uuid.uuid4()); then playwright = await async_playwright().start()
\* (viewport is the 'viewport' keyword argument, request the StartSessionRequest
\* the calling handler holds)
StartCallWith(p, bt, viewport, request) ==
    /\ issued # Ids
    /\ Begin(p, [NoCall EXCEPT !.op = "start", !.sid = Uuid4, !.bt = bt,
                               !.viewport = viewport, !.request = request], NoLocal)
    /\ issued' = issued \cup {Uuid4}
    /\ pc' = [pc EXCEPT ![p] = "s_pw"]
    /\ ret' = [ret EXCEPT ![p] = NoRet]
    /\ UNCHANGED <<sessions, res, created, closeCalled>>

\* start_session(browser_type) called without a viewport
StartCall(p, bt) == StartCallWith(p, bt, NoViewport, NoRequest)

\* the /session/start handler: the request passed validate_browser, the
\* viewport is built and start_session(browser_type=request.browser,
\* viewport=viewport) is called
AppStartSession(p, browser, request) ==
    /\ ValidBrowser(browser)
    /\ StartCallWith(p, Lower(browser), AppViewport(request), request)

StartPlaywright(p) ==
    /\ pc[p] = "s_pw"
    /\ \E ok \in AcquireOutcomes :
          Log(p, "playwright.start", "playwright", ok) /\
          IF ok
          THEN /\ SetRes(call[p].sid, "playwright", "live")
               /\ Goto(p, "s_launch")
          ELSE /\ Finish(p, DriverError("playwright.start"))
               /\ UNCHANGED res
    /\ UNCHANGED <<sessions, issued, call, local, created, closeCalled>>

\* the if/elif/else on browser_type.lower(): launch, or stop the driver and
\* raise ValueError inside the try block
StartLaunch(p) ==
    /\ pc[p] = "s_launch"
    /\ IF LaunchBranch(call[p].bt) # "else"
       THEN /\ \E ok \in AcquireOutcomes :
                  Log(p, "browser.launch", "browser", ok) /\
                  IF ok
                  THEN /\ SetRes(call[p].sid, "browser", "live")
                       /\ Goto(p, "s_ctx")
                       /\ UNCHANGED local
                  ELSE /\ local' = [local EXCEPT ![p].err = "browser.launch"]
                       /\ Goto(p, "s_except")
                       /\ UNCHANGED res
       ELSE /\ \E ok \in ReleaseOutcomes :
                  Log(p, "playwright.stop", "playwright", ok) /\
                  IF ok
                  THEN /\ SetRes(call[p].sid, "playwright", "closed")
                       /\ local' = [local EXCEPT ![p].err = "Unsupported browser type"]
                  ELSE /\ local' = [local EXCEPT ![p].err = "playwright.stop"]
                       /\ UNCHANGED res
            /\ Goto(p, "s_except")
    /\ UNCHANGED <<sessions, issued, call, created, closeCalled>>

\* context_options = {...}; context = await browser.new_context(**context_options)
StartContext(p) ==
    /\ pc[p] = "s_ctx"
    /\ \E ok \in AcquireOutcomes :
          Log(p, "browser.new_context", "context", ok) /\
          IF ok
          THEN /\ SetRes(call[p].sid, "context", "live")
               /\ Goto(p, "s_page")
               /\ local' = [local EXCEPT ![p].context_options = ContextOptions(call[p].viewport)]
          ELSE /\ local' = [local EXCEPT ![p].err = "browser.new_context",
                                         ![p].context_options = ContextOptions(call[p].viewport)]
               /\ Goto(p, "s_except")
               /\ UNCHANGED res
    /\ UNCHANGED <<sessions, issued, call, created, closeCalled>>

\* page = await context.new_page(); sessions[session_id] = {...}; return session_id
StartPage(p) ==
    /\ pc[p] = "s_page"
    /\ \E ok \in AcquireOutcomes :
          Log(p, "context.new_page", "page", ok) /\
          IF ok
          THEN /\ SetRes(call[p].sid, "page", "live")
               /\ sessions' = [sessions EXCEPT ![call[p].sid] = Bundle(call[p].sid)]
               /\ created' = created \cup {call[p].sid}
               /\ Finish(p, ReturnId(call[p].sid))
               /\ UNCHANGED local
          ELSE /\ local' = [local EXCEPT ![p].err = "context.new_page"]
               /\ Goto(p, "s_except")
               /\ UNCHANGED <<res, sessions, created>>
    /\ UNCHANGED <<issued, call, closeCalled>>

\* except Exception as e: await playwright.stop(); raise Exception("Failed to start session: ...")
StartExceptNoStop(p) ==
    /\ pc[p] = "s_except"
    /\ Finish(p, Raise("Exception", "Failed to start session", local[p].err))
    /\ UNCHANGED <<sessions, res, issued, call, local, trace, created, closeCalled>>

StartExcept(p) ==
    /\ pc[p] = "s_except"
    /\ \E ok \in ReleaseOutcomes :
          Log(p, "playwright.stop", "playwright", ok) /\
          IF ok
          THEN /\ SetRes(call[p].sid, "playwright", "closed")
               /\ Finish(p, Raise("Exception", "Failed to start session", local[p].err))
          ELSE /\ Finish(p, DriverError("playwright.stop"))
               /\ UNCHANGED res
    /\ UNCHANGED <<sessions, issued, call, local, created, closeCalled>>

\* ------------------------------------------------------------ close_session
\* the order of the four awaited releases
CloseOrderOuterFirst == <<"playwright", "browser", "context", "page">>

CloseOrder == <<"page", "context", "browser", "playwright">>

ReleaseOp(field) == IF field = "playwright" THEN "playwright.stop" ELSE field \o ".close"

\* if session_id not in sessions: return False; session = sessions[session_id]
CloseCallAbsentRaises(p, s) ==
    /\ Begin(p, [NoCall EXCEPT !.op = "close", !.sid = s],
             [NoLocal EXCEPT !.session = sessions[s],
                             !.step = IF InSessions(s) THEN 1 ELSE 0,
                             !.first = s \in created \ closeCalled])
    /\ closeCalled' = closeCalled \cup ({s} \cap created)
    /\ IF ~InSessions(s)
       THEN Finish(p, Raise("KeyError", "", ""))
       ELSE pc' = [pc EXCEPT ![p] = "c_release"] /\ ret' = [ret EXCEPT ![p] = NoRet]
    /\ UNCHANGED <<sessions, res, issued, created>>

CloseCall(p, s) ==
    /\ Begin(p, [NoCall EXCEPT !.op = "close", !.sid = s],
             [NoLocal EXCEPT !.session = sessions[s],
                             !.step = IF InSessions(s) THEN 1 ELSE 0,
                             !.first = s \in created \ closeCalled])
    /\ closeCalled' = closeCalled \cup ({s} \cap created)
    /\ IF ~InSessions(s)
       THEN Finish(p, ReturnBool(FALSE))
       ELSE pc' = [pc EXCEPT ![p] = "c_release"] /\ ret' = [ret EXCEPT ![p] = NoRet]
    /\ UNCHANGED <<sessions, res, issued, created>>

\* del sessions[session_id]
DelEverySession(s) == sessions' = [i \in Ids |-> NoBundle]

DelSession(s) == sessions' = [sessions EXCEPT ![s] = NoBundle]

\* one of: await session["page"].close(); await session["context"].close();
\* await session["browser"].close(); await session["playwright"].stop();
\* after the last one: del sessions[session_id]; return True
CloseRelease(p) ==
    /\ pc[p] = "c_release"
    /\ LET field == CloseOrder[local[p].step]
           s == call[p].sid
       IN /\ \E ok \in ReleaseOutcomes :
                Log(p, ReleaseOp(field), field, ok) /\
                IF ~ok
                THEN /\ Finish(p, DriverError(ReleaseOp(field)))
                     /\ UNCHANGED <<res, sessions, local>>
                ELSE /\ SetRes(local[p].session[field], field, "closed")
                     /\ IF local[p].step < Len(CloseOrder)
                        THEN /\ local' = [local EXCEPT ![p].step = @ + 1]
                             /\ Goto(p, "c_release")
                             /\ UNCHANGED sessions
                        ELSE /\ UNCHANGED local
                             /\ IF InSessions(s)
                                THEN /\ DelSession(s)
                                     /\ Finish(p, ReturnBool(TRUE))
                                ELSE /\ Finish(p, Raise("KeyError", "", ""))
                                     /\ UNCHANGED sessions
    /\ UNCHANGED <<issued, call, created, closeCalled>>

\* ------------------------------------------------------------ execute_action
\* the element the locator dispatch binds before its first await, for a
\* structured locator: page.get_by_role(...), or page.locator('text=...') when
\* building the role query raised
FirstElement(roleRaises) == IF roleRaises THEN "text" ELSE "role"

\* page = session["page"], and the state of that page object
PageOf(p) == local[p].session.page

PageState(p) == IF PageOf(p) \in Ids THEN res[PageOf(p)].page ELSE "none"

\* await element.count() == 0, for the element the call holds
CountNeverZero(p) == FALSE

CountIsZero(p) == local[p].element \notin call[p].dom

\* the branch execute_action takes before its first await: the session check,
\* the page-level goto, the locator check, then the isinstance dispatch
ExecEntryLocatorFirst(s, action, loc) ==
    IF action # "goto" /\ loc.type = "none" THEN "no_locator"
    ELSE IF ~InSessions(s) THEN "not_found"
    ELSE IF action = "goto" THEN "goto"
    ELSE IF loc.type = "str" THEN "str"
    ELSE IF IsStructured(loc) THEN "structured"
    ELSE "invalid"

ExecEntryGotoNeedsLocator(s, action, loc) ==
    IF ~InSessions(s) THEN "not_found"
    ELSE IF loc.type = "none" THEN "no_locator"
    ELSE IF action = "goto" THEN "goto"
    ELSE IF loc.type = "str" THEN "str"
    ELSE IF IsStructured(loc) THEN "structured"
    ELSE "invalid"

ExecEntryNoLocatorCheck(s, action, loc) ==
    IF ~InSessions(s) THEN "not_found"
    ELSE IF action = "goto" THEN "goto"
    ELSE IF loc.type = "str" THEN "str"
    ELSE IF IsStructured(loc) THEN "structured"
    ELSE "invalid"

ExecEntry(s, action, loc) ==
    IF ~InSessions(s) THEN "not_found"
    ELSE IF action = "goto" THEN "goto"
    ELSE IF loc.type = "none" THEN "no_locator"
    ELSE IF loc.type = "str" THEN "str"
    ELSE IF IsStructured(loc) THEN "structured"
    ELSE "invalid"

\* if session_id not in sessions: raise; page-level goto; locator checks and the
\* synchronous part of the locator dispatch, up to the first await
ExecCall(p, s, action, loc, dom, roleRaises) ==
    LET e == ExecEntry(s, action, loc) IN
    /\ Begin(p, [NoCall EXCEPT !.op = "execute", !.sid = s, !.action = action, !.loc = loc,
                               !.dom = dom, !.roleRaises = roleRaises],
             [NoLocal EXCEPT !.session = sessions[s],
                             !.element = IF e = "str" THEN "css"
                                         ELSE IF e = "structured" THEN FirstElement(roleRaises)
                                         ELSE ""])
    /\ CASE e = "not_found" -> Finish(p, Raise("ValueError", "Session not found", ""))
         [] e = "goto" -> Goto(p, "e_goto")
         [] e = "no_locator" -> Finish(p, Raise("ValueError", "Locator is required for action", ""))
         [] e = "str" -> Goto(p, "e_count")
         [] e = "structured" -> Goto(p, IF roleRaises THEN "e_cnt_text" ELSE "e_count")
         [] e = "invalid" ->
                Finish(p, Raise("ValueError", "Failed to locate element", "Invalid locator format"))
    /\ UNCHANGED <<sessions, res, issued, created, closeCalled>>

\* except Exception as e: return False, await page.screenshot()  (around page.goto)
OnGotoErrorReraise(p) == Finish(p, DriverError("page.goto"))

OnGotoError(p) == Goto(p, "e_shot_exc")

\* await page.goto(url, ...) inside try
ExecGoto(p) ==
    /\ pc[p] = "e_goto"
    /\ \E ok \in DriverOutcomes(PageState(p)) :
          Log(p, "page.goto", "page", ok) /\
          IF ok THEN Goto(p, "e_shot_ok") ELSE OnGotoError(p)
    /\ UNCHANGED <<sessions, res, issued, call, local, created, closeCalled>>

\* screenshot = await page.screenshot(); return True, screenshot  (inside a try:
\* a failure runs the except branch)
ExecShotOk(p) ==
    /\ pc[p] = "e_shot_ok"
    /\ \E ok \in ScreenshotOutcomes(PageState(p)) :
          Log(p, "page.screenshot", "page", ok) /\
          IF ok THEN Finish(p, ReturnShot(TRUE, Len(trace[p]) + 1))
          ELSE Goto(p, "e_shot_exc")
    /\ UNCHANGED <<sessions, res, issued, call, local, created, closeCalled>>

\* except Exception: return False, await page.screenshot()
ExecShotExc(p) ==
    /\ pc[p] = "e_shot_exc"
    /\ \E ok \in ScreenshotOutcomes(PageState(p)) :
          Log(p, "page.screenshot", "page", ok) /\
          IF ok THEN Finish(p, ReturnShot(FALSE, Len(trace[p]) + 1))
          ELSE Finish(p, DriverError("page.screenshot"))
    /\ UNCHANGED <<sessions, res, issued, call, local, created, closeCalled>>

\* fallback chain of the except branch: if not await element.count(): element = ...
\* on the text query, then on the element kept so far
ExecFallbackCount(p) ==
    /\ pc[p] \in {"e_cnt_text", "e_cnt_2"}
    /\ \E ok \in DriverOutcomes(PageState(p)) :
          Log(p, "element.count", local[p].element, ok) /\
          IF ~ok
          THEN /\ Finish(p, Raise("ValueError", "Failed to locate element", "element.count"))
               /\ UNCHANGED local
          ELSE /\ local' = [local EXCEPT ![p].element =
                               IF CountIsZero(p) THEN IF pc[p] = "e_cnt_text" THEN "aria" ELSE "hastext"
                               ELSE @]
               /\ Goto(p, IF pc[p] = "e_cnt_text" THEN "e_cnt_2" ELSE "e_count")
    /\ UNCHANGED <<sessions, res, issued, call, created, closeCalled>>

\* if await element.count() == 0: ...; then the dispatch on action up to its
\* first await (the final else raises ValueError inside the try)
ExecCountRaisesUnsupported(p) ==
    /\ pc[p] = "e_count"
    /\ \E ok \in DriverOutcomes(PageState(p)) :
          Log(p, "element.count", local[p].element, ok) /\
          IF ~ok
          THEN Finish(p, DriverError("element.count"))
          ELSE IF CountIsZero(p)
          THEN Goto(p, "e_shot_nf")
          ELSE IF call[p].action = "hover"
          THEN Goto(p, "e_wait")
          ELSE IF ElementOp(call[p].action) # ""
          THEN Goto(p, "e_act")
          ELSE Finish(p, Raise("ValueError", "Unsupported action", ""))
    /\ UNCHANGED <<sessions, res, issued, call, local, created, closeCalled>>

ExecCount(p) ==
    /\ pc[p] = "e_count"
    /\ \E ok \in DriverOutcomes(PageState(p)) :
          Log(p, "element.count", local[p].element, ok) /\
          IF ~ok
          THEN Finish(p, DriverError("element.count"))
          ELSE IF CountIsZero(p)
          THEN Goto(p, "e_shot_nf")
          ELSE IF call[p].action = "hover"
          THEN Goto(p, "e_wait")
          ELSE IF ElementOp(call[p].action) # ""
          THEN Goto(p, "e_act")
          ELSE Goto(p, "e_shot_fail")
    /\ UNCHANGED <<sessions, res, issued, call, local, created, closeCalled>>

\* screenshot = await page.screenshot(); return False, screenshot
ExecShotNotFound(p) ==
    /\ pc[p] = "e_shot_nf"
    /\ \E ok \in ScreenshotOutcomes(PageState(p)) :
          Log(p, "page.screenshot", "page", ok) /\
          IF ok THEN Finish(p, ReturnShot(FALSE, Len(trace[p]) + 1))
          ELSE Finish(p, DriverError("page.screenshot"))
    /\ UNCHANGED <<sessions, res, issued, call, local, created, closeCalled>>

\* await element.wait_for(state="visible", timeout=5000)
ExecWaitIgnoresTimeout(p) ==
    /\ pc[p] = "e_wait"
    /\ \E ok \in DriverOutcomes(PageState(p)) :
          Log(p, "element.wait_for", local[p].element, ok) /\ Goto(p, "e_act")
    /\ UNCHANGED <<sessions, res, issued, call, local, created, closeCalled>>

ExecWait(p) ==
    /\ pc[p] = "e_wait"
    /\ \E ok \in DriverOutcomes(PageState(p)) :
          Log(p, "element.wait_for", local[p].element, ok) /\
          IF ok THEN Goto(p, "e_act") ELSE Goto(p, "e_shot_fail")
    /\ UNCHANGED <<sessions, res, issued, call, local, created, closeCalled>>

\* await element.<operation>(...)
ExecOpRetriesOnce(p) ==
    /\ pc[p] = "e_act"
    /\ \E ok \in DriverOutcomes(PageState(p)) :
          Log(p, ElementOp(call[p].action), local[p].element, ok) /\
          IF ok THEN Goto(p, "e_shot_done")
          ELSE IF \E i \in 1..Len(trace[p]) : trace[p][i].op = ElementOp(call[p].action)
          THEN Goto(p, "e_shot_fail")
          ELSE Goto(p, "e_act")
    /\ UNCHANGED <<sessions, res, issued, call, local, created, closeCalled>>

ExecOp(p) ==
    /\ pc[p] = "e_act"
    /\ \E ok \in DriverOutcomes(PageState(p)) :
          Log(p, ElementOp(call[p].action), local[p].element, ok) /\
          IF ok THEN Goto(p, "e_shot_done") ELSE Goto(p, "e_shot_fail")
    /\ UNCHANGED <<sessions, res, issued, call, local, created, closeCalled>>

\* screenshot = await page.screenshot(); return True, screenshot
ExecShotDone(p) ==
    /\ pc[p] = "e_shot_done"
    /\ \E ok \in ScreenshotOutcomes(PageState(p)) :
          Log(p, "page.screenshot", "page", ok) /\
          IF ok THEN Finish(p, ReturnShot(TRUE, Len(trace[p]) + 1))
          ELSE Goto(p, "e_shot_fail")
    /\ UNCHANGED <<sessions, res, issued, call, local, created, closeCalled>>

\* except Exception: return False, await page.screenshot()
ExecShotFailDropsSession(p) ==
    /\ pc[p] = "e_shot_fail"
    /\ \E ok \in ScreenshotOutcomes(PageState(p)) :
          Log(p, "page.screenshot", "page", ok) /\
          IF ok THEN Finish(p, ReturnShot(FALSE, Len(trace[p]) + 1))
          ELSE Finish(p, DriverError("page.screenshot"))
    /\ DelSession(call[p].sid)
    /\ UNCHANGED <<res, issued, call, local, created, closeCalled>>

ExecShotFail(p) ==
    /\ pc[p] = "e_shot_fail"
    /\ \E ok \in ScreenshotOutcomes(PageState(p)) :
          Log(p, "page.screenshot", "page", ok) /\
          IF ok THEN Finish(p, ReturnShot(FALSE, Len(trace[p]) + 1))
          ELSE Finish(p, DriverError("page.screenshot"))
    /\ UNCHANGED <<sessions, res, issued, call, local, created, closeCalled>>

\* ------------------------------------------------------------ specifications
\* the (action, locator, page content) arguments of execute_action
ExecInputs ==
    {r \in [action : ActionInputs, loc : Locators, dom : SUBSET Strategies, roleRaises : BOOLEAN] :
        r.dom \in Doms(r.loc) /\ r.roleRaises \in RoleRaises(r.loc, r.dom)}

\* one step of caller p, its calls drawing their arguments from the given sets
Step(p, browsers, requests) ==
    \/ pc[p] = "idle" /\ \E bt \in browsers : StartCall(p, bt)
    \/ StartPlaywright(p)
    \/ StartLaunch(p)
    \/ StartContext(p)
    \/ StartPage(p)
    \/ StartExcept(p)
    \/ pc[p] = "idle" /\ \E s \in Ids : CloseCall(p, s)
    \/ CloseRelease(p)
    \/ pc[p] = "idle" /\ \E s \in Ids, r \in requests :
          ExecCall(p, s, r.action, r.loc, r.dom, r.roleRaises)
    \/ ExecGoto(p)
    \/ ExecShotOk(p)
    \/ ExecShotExc(p)
    \/ ExecFallbackCount(p)
    \/ ExecCount(p)
    \/ ExecShotNotFound(p)
    \/ ExecWait(p)
    \/ ExecOp(p)
    \/ ExecShotDone(p)
    \/ ExecShotFail(p)
    \/ Resume(p)

\* arguments of the calls that run concurrently: one supported browser, a
\* navigation, a hover through a selector that matches, and a hover through a
\* structured locator that nothing matches
ConcBrowsers == {"chromium"}
ConcInputs ==
    {r \in ExecInputs :
        \/ r.action = "goto" /\ r.loc = NoLocator
        \/ r.action = "hover" /\ r.loc = StrLocator /\ r.dom = {"css"}
        \/ r.action = "hover" /\ r.loc = DictLocator({"role", "name"}) /\ r.dom = {}}

\* concurrent callers, interleaved at their awaits
Next == \E p \in Callers : Step(p, ConcBrowsers, ConcInputs)

Spec == Init /\ [][Next]_vars

\* the event loop resumes every coroutine whose awaited release has settled:
\* a close call that is suspended at a release is eventually run again
FairSpec == Spec /\ \A p \in Callers : WF_vars(CloseRelease(p))

\* one caller, one call after the other
SeqNext == \E p \in SeqCallers : Step(p, BrowserInputs, ExecInputs)

SeqSpec == Init /\ [][SeqNext]_vars

\* one caller going through the /session/start handler, request after request
AppStep(p) ==
    \/ pc[p] = "idle" /\ \E browser \in BrowserInputs, request \in Requests :
          AppStartSession(p, browser, request)
    \/ StartPlaywright(p)
    \/ StartLaunch(p)
    \/ StartContext(p)
    \/ StartPage(p)
    \/ StartExcept(p)
    \/ Resume(p)

AppNext == \E p \in SeqCallers : AppStep(p)

AppSpec == Init /\ [][AppNext]_vars

FairSeqSpec == SeqSpec /\ \A p \in SeqCallers : WF_vars(CloseRelease(p))

\* ------------------------------------------------------------ properties
\* caller p holds the outcome of a finished call of operation op
Done(p, op) == pc[p] = "done" /\ call[p].op = op

\* the session of p's call was in the registry when the call began
WasPresent(p) == local[p].session # NoBundle

\* the session of p's call is live: registered when the call began, its page open
LivePage(p) == WasPresent(p) /\ PageState(p) = "live"

\* some (every) operation named in ops, logged by p's call
Invoked(p, ops) == \E i \in 1..Len(trace[p]) : trace[p][i].op \in ops
Failed(p, ops) == \E i \in 1..Len(trace[p]) : trace[p][i].op \in ops /\ ~trace[p][i].ok
AllOk(p) == \A i \in 1..Len(trace[p]) : trace[p][i].ok

OpNames(p) == [i \in 1..Len(trace[p]) |-> trace[p][i].op]

SupportedKinds == {"chromium", "firefox", "webkit"}
ElementOps ==
    {"element.click", "element.fill", "element.type", "element.hover", "element.focus",
     "element.press", "element.check", "element.uncheck", "element.select_option",
     "element.set_input_files", "element.dblclick", "element.wait_for"}
AcquireSteps == {"browser.launch", "browser.new_context", "context.new_page"}
ReleaseSeq == <<"page.close", "context.close", "browser.close", "playwright.stop">>
IsPrefix(s, u) == Len(s) <= Len(u) /\ \A i \in 1..Len(s) : s[i] = u[i]

\* C1: after a successful create the first close on the returned id returns
\* true and every later close on that id returns false.
C1_FirstCloseTrueLaterFalse ==
    \A p \in Callers :
        Done(p, "close") /\ call[p].sid \in created =>
            ret[p] = ReturnBool(local[p].first)

\* C2: an execute call on a session id that is not in the registry raises
\* "Session not found", whatever the action and the locator, and invokes no
\* driver operation.
C2_UnknownSessionRaises ==
    \A p \in Callers :
        Done(p, "execute") /\ ~InSessions(call[p].sid) =>
            /\ ret[p] = Raise("ValueError", "Session not found", "")
            /\ trace[p] = <<>>

\* an element-scoped action with no locator on an unknown session id
C2_Witness ==
    \E p \in Callers :
        /\ Done(p, "execute") /\ ~InSessions(call[p].sid)
        /\ call[p].action = "click" /\ call[p].loc = NoLocator

\* the first strategy, in the order role, text, aria-label, has-text, that
\* matches at least one node
FirstMatching(dom) ==
    IF "role" \in dom THEN "role"
    ELSE IF "text" \in dom THEN "text"
    ELSE IF "aria" \in dom THEN "aria"
    ELSE "hastext"

\* C3: for a structured {role, name} locator the resolved element is the
\* result of the first strategy, in the order role, text, aria-label,
\* has-text, that matches at least one node.
C3_FallbackOrder ==
    \A p \in Callers :
        /\ Done(p, "execute") /\ WasPresent(p) /\ call[p].action # "goto"
        /\ call[p].loc = DictLocator({"role", "name"})
        /\ call[p].dom # {} /\ AllOk(p)
        => local[p].element = FirstMatching(call[p].dom)

\* C4: an element-scoped action on a live session whose locator resolves to
\* zero elements returns (False, screenshot), the screenshot being the last
\* operation of the call, and invokes no element operation.
C4_ZeroElementsSoftFailure ==
    \A p \in Callers :
        /\ Done(p, "execute") /\ LivePage(p) /\ call[p].action # "goto"
        /\ call[p].loc \in {StrLocator, DictLocator({"role", "name"})}
        /\ local[p].element \notin call[p].dom
        /\ ~Failed(p, {"element.count"})
        => /\ ret[p] = ReturnShot(FALSE, Len(trace[p]))
           /\ trace[p][Len(trace[p])] = [op |-> "page.screenshot", on |-> "page", ok |-> TRUE]
           /\ ~Invoked(p, ElementOps)

\* a click through a selector that matches nothing has returned
C4_Witness ==
    \E p \in Callers :
        /\ Done(p, "execute") /\ LivePage(p) /\ call[p].action = "click"
        /\ call[p].loc = StrLocator /\ call[p].dom = {}
        /\ ret[p].kind = "return"

\* C5: a goto on a live session whose page.goto raises returns
\* (False, screenshot), the screenshot taken after the failed load; the call
\* does not raise.
C5_NavigationFailureIsSoft ==
    \A p \in Callers :
        /\ Done(p, "execute") /\ LivePage(p) /\ call[p].action = "goto"
        /\ Failed(p, {"page.goto"})
        => /\ ret[p] = ReturnShot(FALSE, 2)
           /\ OpNames(p) = <<"page.goto", "page.screenshot">>
           /\ trace[p][2].ok

\* a goto whose load failed has finished
C5_Witness ==
    \E p \in Callers :
        /\ Done(p, "execute") /\ LivePage(p) /\ call[p].action = "goto"
        /\ Failed(p, {"page.goto"})

\* C6: create with a browser kind outside the supported set stores no session
\* and fails with the error "Unsupported browser type" itself (a ValueError),
\* not with the generic "Failed to start session" exception.
C6_UnsupportedKindDistinctError ==
    \A p \in Callers :
        /\ Done(p, "start") /\ Lower(call[p].bt) \notin SupportedKinds
        /\ AllOk(p)
        => /\ ~InSessions(call[p].sid)
           /\ ret[p] = Raise("ValueError", "Unsupported browser type", "")

C8_StartFailureReleasesDriver ==
    \A p \in Callers :
        Done(p, "start") /\ Failed(p, AcquireSteps) =>
            /\ ~InSessions(call[p].sid)
            /\ ret[p].kind = "raise"
            /\ trace[p][Len(trace[p])].op = "playwright.stop"
            /\ (trace[p][Len(trace[p])].ok => res[call[p].sid].playwright = "closed")

\* a create whose context creation failed has finished, its driver stopped
C8_Witness ==
    \E p \in Callers :
        /\ Done(p, "start") /\ Failed(p, {"browser.new_context"})
        /\ res[call[p].sid].playwright = "closed"

\* C9: close on a present session invokes page.close, context.close,
\* browser.close, playwright.stop in that order; the entry stays in the
\* registry until all four have completed, and with all four completed the
\* entry is removed and the call returns True; no object of a registered or
\* closing session is closed while an object it owns is still live.
C9_CloseReleasesInnermostFirst ==
    \A p \in Callers :
        call[p].op = "close" /\ WasPresent(p) =>
            /\ IsPrefix(OpNames(p), ReleaseSeq)
            /\ \A i \in 1..Len(trace[p]) : trace[p][i].on = CloseOrder[i]
            /\ (pc[p] = "c_release" => AllOk(p) /\ InSessions(call[p].sid))
            /\ (pc[p] = "done" /\ AllOk(p) =>
                    /\ Len(trace[p]) = 4
                    /\ ret[p] = ReturnBool(TRUE)
                    /\ ~InSessions(call[p].sid))
            /\ (ret[p] = ReturnBool(TRUE) => Len(trace[p]) = 4 /\ AllOk(p))
            /\ LET r == res[local[p].session.page] IN
                 /\ r.context = "closed" => r.page = "closed"
                 /\ r.browser = "closed" => r.context = "closed"
                 /\ r.playwright = "closed" => r.browser = "closed"

\* a close that released all four objects and returned True
C9_Witness ==
    \E p \in Callers :
        /\ Done(p, "close") /\ WasPresent(p) /\ ret[p] = ReturnBool(TRUE)
        /\ Len(trace[p]) = 4

\* C10: when a release step of close fails, close still removes the entry
\* from the registry, goes on to release the remaining objects, and does not
\* raise.
C10_ReleaseFailureStillRemoves ==
    \A p \in Callers :
        Done(p, "close") /\ WasPresent(p) /\ ~AllOk(p) =>
            /\ ~InSessions(call[p].sid)
            /\ Len(trace[p]) = 4
            /\ ret[p].kind = "return"

\* C11: an element-scoped action on a live session with no locator raises
\* "Locator is required for action" before any driver call: no element query,
\* no element operation, no screenshot.
C11_MissingLocatorRaisesFirst ==
    \A p \in Callers :
        /\ Done(p, "execute") /\ WasPresent(p) /\ call[p].action # "goto"
        /\ call[p].loc = NoLocator
        => /\ ret[p] = Raise("ValueError", "Locator is required for action", "")
           /\ trace[p] = <<>>

\* a hover without locator on a session whose page is open has finished
C11_Witness ==
    \E p \in Callers :
        /\ Done(p, "execute") /\ LivePage(p) /\ call[p].action = "hover"
        /\ call[p].loc = NoLocator

\* C12: an execute call on a live session raises only for a missing locator
\* or a malformed locator; every other failure (navigation error, zero
\* elements, an error while counting the resolved element, an element
\* operation raising, the hover visibility wait timing out) is returned as
\* (False, screenshot).
C12_OnlyRequestErrorsRaise ==
    \A p \in Callers :
        /\ Done(p, "execute") /\ LivePage(p)
        /\ ~(call[p].action # "goto" /\ call[p].loc = NoLocator)
        /\ ~(call[p].action # "goto" /\ call[p].loc.type = "dict" /\ ~IsStructured(call[p].loc))
        => /\ ret[p].kind = "return"
           /\ (~AllOk(p) \/ (call[p].action # "goto" /\ CountIsZero(p)))
                  => ret[p] = ReturnShot(FALSE, Len(trace[p]))

\* C13: a close call on an id that is not in the registry returns False
\* without raising, invokes no release on any object, and leaves the registry
\* and every driver object as they were.
C13_CloseAbsentIsNoOp ==
    [][\A p \in Callers :
          pc[p] = "idle" /\ call'[p].op = "close" /\ ~InSessions(call'[p].sid) =>
              /\ pc'[p] = "done"
              /\ ret'[p] = ReturnBool(FALSE)
              /\ trace'[p] = <<>>
              /\ sessions' = sessions
              /\ res' = res]_vars

\* a close on an absent id has returned while another session is registered
C13_Witness ==
    \E p \in Callers :
        /\ Done(p, "close") /\ ~WasPresent(p) /\ ret[p].kind = "return"
        /\ \E s \in Registered : s # call[p].sid /\ res[s].page = "live"

\* C14: a goto on a live session, with or without a locator, does not raise
\* and resolves no locator: it invokes page.goto and then page.screenshot and
\* nothing else, and returns (True, screenshot) exactly when page.goto
\* completed, (False, screenshot) otherwise, the screenshot being the one taken
\* after the load.
C14_GotoNeedsNoLocator ==
    \A p \in Callers :
        Done(p, "execute") /\ LivePage(p) /\ call[p].action = "goto" =>
            /\ OpNames(p) = <<"page.goto", "page.screenshot">>
            /\ trace[p][2].ok
            /\ ret[p] = ReturnShot(trace[p][1].ok, 2)

\* a goto without locator whose load completed has returned True
C14_Witness ==
    \E p \in Callers :
        /\ Done(p, "execute") /\ LivePage(p) /\ call[p].action = "goto"
        /\ call[p].loc = NoLocator
        /\ ret[p] = ReturnShot(TRUE, 2)

\* C15: when a create call has failed, every object that attempt acquired
\* (driver, browser, context) has been released by the time the error reaches
\* the caller: none of them is still live.
C15_FailedStartReleasesAll ==
    \A p \in Callers :
        Done(p, "start") /\ ret[p].kind = "raise" =>
            \A f \in {"playwright", "browser", "context"} : res[call[p].sid][f] # "live"

\* C16: in every reachable state, the states between the awaits of
\* start_session and close_session included, an id is in the registry if and
\* only if the driver, browser, context and page started under it are all
\* live.
C16_RegisteredIffAllLive ==
    \A s \in Ids :
        InSessions(s) <=>
            \A f \in {"playwright", "browser", "context", "page"} : res[s][f] = "live"

\* C17: for distinct session ids A and B and any interleaving, every step of
\* an execute or close call on A works on the bundle stored under A only, and
\* leaves the registry entry of B and the driver objects of B unchanged.
C17_OtherSessionsUntouched ==
    [][\A p \in Callers : \A B \in Ids :
          /\ pc[p] # "done"
          /\ pc'[p] # pc[p] \/ trace'[p] # trace[p]
          /\ call'[p].op \in {"execute", "close"}
          /\ call'[p].sid # B
          => /\ local'[p].session \in {NoBundle, Bundle(call'[p].sid)}
             /\ sessions'[B] = sessions[B]
             /\ res'[B] = res[B]]_vars

\* a close on one session has returned True while the other caller's goto on
\* the other session has returned True, that session registered with its page
\* open
C17_Witness ==
    \E p, q \in Callers :
        /\ Done(p, "close") /\ ret[p] = ReturnBool(TRUE)
        /\ Done(q, "execute") /\ ret[q] = ReturnShot(TRUE, 2)
        /\ call[q].sid # call[p].sid
        /\ InSessions(call[q].sid) /\ LivePage(q)

\* the number of release operations the call of p invoked on the object field
Releases(p, field) ==
    Cardinality({i \in 1..Len(trace[p]) : trace[p][i].op = ReleaseOp(field)})

\* C18: when two close calls on the same registered session interleave and no
\* driver release fails, exactly one of them returns True, the other returns
\* False, neither raises, and each of the session's four objects is released
\* exactly once.
C18_ConcurrentCloseOnce ==
    \A p, q \in Callers :
        /\ p # q /\ Done(p, "close") /\ Done(q, "close")
        /\ call[p].sid = call[q].sid
        /\ WasPresent(p) /\ WasPresent(q)
        /\ AllOk(p) /\ AllOk(q)
        => /\ {ret[p], ret[q]} = {ReturnBool(TRUE), ReturnBool(FALSE)}
           /\ \A i \in 1..Len(CloseOrder) :
                 Releases(p, CloseOrder[i]) + Releases(q, CloseOrder[i]) = 1

\* C19: for any interleaving of an execute call and a close call on the same
\* session, the page of an execute call in flight (each of its positions is a
\* pending driver operation on that page) is not released under it: a page
\* that is open while the call is in flight is still open after every step.
C19_ExecutePageStaysLive ==
    [][\A p \in Callers :
          /\ call[p].op = "execute" /\ pc[p] \notin {"idle", "done"}
          /\ PageState(p) = "live"
          => res'[PageOf(p)].page = "live"]_vars

\* the driver objects a registry entry refers to
Handles(b) == {b.playwright, b.browser, b.context, b.page} \ {0}

\* C20: for any interleaving of concurrent create calls, each create that
\* succeeds returns an id no other create in flight or finished holds, stores
\* its own driver, browser, context and page under that id where no entry
\* was, shares no object with any other entry, leaves every other entry as
\* it was, and so makes the registry one entry larger: N successful creates
\* give N entries under N distinct ids.
C20_ConcurrentCreatesIndependent ==
    [][\A p \in Callers :
          pc[p] = "s_page" /\ pc'[p] = "done" /\ ret'[p].kind = "return" =>
              LET s == call[p].sid IN
              /\ ret'[p] = ReturnId(s)
              /\ ~InSessions(s)
              /\ sessions' = [sessions EXCEPT ![s] = Bundle(s)]
              /\ \A f \in {"playwright", "browser", "context", "page"} : res'[s][f] = "live"
              /\ \A t \in Ids \ {s} : Handles(sessions'[t]) \cap Handles(sessions'[s]) = {}
              /\ \A q \in Callers \ {p} :
                    call[q].op = "start" /\ pc[q] # "idle" => call[q].sid # s
              /\ Cardinality(Registered') = Cardinality(Registered) + 1]_vars

\* the creates of the two callers have both returned, and the registry holds
\* their two ids
C20_Witness ==
    \E p, q \in Callers :
        /\ p # q /\ Done(p, "start") /\ Done(q, "start")
        /\ ret[p].kind = "return" /\ ret[q].kind = "return"
        /\ ret[p].id # ret[q].id
        /\ Registered = {ret[p].id, ret[q].id}

\* C21: every step of an execute call, whatever the call's outcome (True,
\* soft failure, or a raised locator error), leaves the registry and every
\* driver object as they were; a session the call found in the registry is
\* still registered under the same bundle, so a following action on the id
\* does not raise "Session not found" and a following close finds the entry.
C21_ExecuteLeavesSessionUnchanged ==
    [][\A p \in Callers :
          /\ pc[p] # "done"
          /\ pc'[p] # pc[p] \/ trace'[p] # trace[p]
          /\ call'[p].op = "execute"
          => /\ sessions' = sessions
             /\ res' = res
             /\ (local'[p].session # NoBundle =>
                    sessions'[call'[p].sid] = local'[p].session)]_vars

\* a hover whose element operation or visibility wait failed has returned
\* (False, screenshot), its session registered with all four objects live
C21_Witness ==
    \E p \in Callers :
        /\ Done(p, "execute") /\ LivePage(p) /\ call[p].action = "hover"
        /\ Failed(p, ElementOps) /\ ret[p] = ReturnShot(FALSE, Len(trace[p]))
        /\ InSessions(call[p].sid)
        /\ \A f \in {"playwright", "browser", "context", "page"} : res[call[p].sid][f] = "live"

\* C22: over any sequence of create and close calls, the id a create returns
\* was returned by no earlier create, also when the session it named has been
\* closed since; and an id is only ever registered with the one bundle of
\* objects started under it.
C22_IdNeverReused ==
    [][\A p \in Callers :
          pc[p] = "s_page" /\ pc'[p] = "done" /\ ret'[p].kind = "return" =>
              /\ ret'[p].id \notin created
              /\ \A s \in Ids : sessions'[s] \in {NoBundle, Bundle(s)}]_vars

\* a create has returned an id after an earlier session was created and closed
C22_Witness ==
    \E p \in Callers :
        /\ Done(p, "start") /\ ret[p].kind = "return"
        /\ \E s \in created \cap closeCalled : s # ret[p].id /\ ~InSessions(s)

\* C23: in a hover call whose locator resolved to at least one element, the
\* wait for the element to be visible is invoked before the hover operation:
\* element.hover is only ever invoked directly after a wait that completed;
\* when the wait fails or times out, element.hover is not invoked and the call
\* on a live session returns (False, screenshot).
C23_HoverWaitsForVisible ==
    \A p \in Callers :
        call[p].op = "execute" /\ call[p].action = "hover" =>
            /\ \A i \in 1..Len(trace[p]) :
                  trace[p][i].op = "element.hover" =>
                      /\ i > 1
                      /\ trace[p][i - 1].op = "element.wait_for"
                      /\ trace[p][i - 1].ok
            /\ Failed(p, {"element.wait_for"}) => ~Invoked(p, {"element.hover"})
            /\ Done(p, "execute") /\ LivePage(p) /\ Failed(p, {"element.wait_for"}) =>
                  ret[p] = ReturnShot(FALSE, Len(trace[p]))

\* a hover on a matching element whose visibility wait timed out has returned
C23_Witness ==
    \E p \in Callers :
        /\ Done(p, "execute") /\ LivePage(p) /\ call[p].action = "hover"
        /\ ~CountIsZero(p) /\ Failed(p, {"element.wait_for"})
        /\ ret[p].kind = "return"

\* the number of times the call of p invoked driver operation op
Count(p, op) == Cardinality({i \in 1..Len(trace[p]) : trace[p][i].op = op})

\* the navigation and element operations of execute_action, and the
\* acquisition steps of start_session
OnceOps(p) ==
    IF call[p].op = "execute" THEN {"page.goto"} \cup ElementOps
    ELSE IF call[p].op = "start" THEN {"playwright.start"} \cup AcquireSteps
    ELSE {}

\* C24: within one execute call the navigation and each element operation
\* are invoked at most once, and within one create call each acquisition
\* step is attempted at most once; after one of them failed the call invokes
\* nothing but its screenshot or the driver stop; and a call reports one
\* outcome, when it ends.
C24_NoRetries ==
    \A p \in Callers :
        /\ \A o \in OnceOps(p) : Count(p, o) <= 1
        /\ \A i \in 1..Len(trace[p]) :
              trace[p][i].op \in OnceOps(p) /\ ~trace[p][i].ok =>
                  \A j \in (i + 1)..Len(trace[p]) :
                      trace[p][j].op \in {"page.screenshot", "playwright.stop"}
        /\ (pc[p] = "done") = (ret[p].kind \in {"return", "raise"})
        /\ (pc[p] # "done") = (ret[p] = NoRet)

\* a click whose element operation raised has ended, the operation invoked once
C24_Witness ==
    \E p \in Callers :
        /\ Done(p, "execute") /\ LivePage(p) /\ call[p].action = "click"
        /\ Failed(p, {"element.click"}) /\ Count(p, "element.click") = 1

\* the acquisitions of start_session, in the order driver, browser, context, page
AcquireSeq == <<"playwright.start", "browser.launch", "browser.new_context", "context.new_page">>

\* C25: create validates the browser kind first, so a kind outside the
\* supported set acquires nothing; then it acquires driver, browser, context
\* and page in that order; the registry entry is written only after all four
\* were acquired, and the returned id maps to exactly that bundle.
C25_ValidateThenAcquireInOrder ==
    \A p \in Callers :
        call[p].op = "start" =>
            /\ Lower(call[p].bt) \notin SupportedKinds => ~Invoked(p, {"playwright.start"})
            /\ \A i \in 1..Len(trace[p]) :
                  i <= Len(AcquireSeq) /\ (\A j \in 1..i : trace[p][j].ok) =>
                      trace[p][i].op = AcquireSeq[i]
            /\ InSessions(call[p].sid) => OpNames(p) = AcquireSeq /\ AllOk(p)
            /\ pc[p] = "done" /\ ret[p].kind = "return" =>
                  /\ ret[p] = ReturnId(call[p].sid)
                  /\ sessions[call[p].sid] = Bundle(call[p].sid)

\* C26: under fair scheduling, every close call that found its session in the
\* registry eventually ends, and unless one of its releases failed it ends
\* having returned True with the id removed from the registry.
C26_CloseEventuallyReturnsTrue ==
    \A p \in Callers :
        (pc[p] = "c_release") ~>
            /\ Done(p, "close")
            /\ \/ ~AllOk(p)
               \/ ret[p] = ReturnBool(TRUE) /\ ~InSessions(call[p].sid)

\* C27: at the /session/start boundary a viewport is handed to
\* browser.new_context only when the request supplied both viewport_width and
\* viewport_height, and it then carries exactly those two values; a request
\* with only one of them gives no viewport at all, never a partial one; a
\* device scale factor is handed on only inside an applied viewport, as the
\* request gave it.
C27_ViewportNeedsBothDimensions ==
    \A p \in Callers :
        call[p].op = "start" /\ Invoked(p, {"browser.new_context"}) =>
            LET r == call[p].request
                v == local[p].context_options.viewport
            IN /\ v.isDict = (r.viewport_width.some /\ r.viewport_height.some)
               /\ v.isDict => v.width = r.viewport_width /\ v.height = r.viewport_height
               /\ ~v.isDict => v = NoViewport
               /\ v.device_scale_factor.some =>
                     v.isDict /\ v.device_scale_factor = r.device_scale_factor

\* a request with a width and a scale factor but no height has created a
\* session, its context made without a viewport
C27_Witness ==
    \E p \in Callers :
        /\ Done(p, "start") /\ ret[p].kind = "return"
        /\ call[p].request.viewport_width.some /\ ~call[p].request.viewport_height.some
        /\ call[p].request.device_scale_factor.some
        /\ local[p].context_options.viewport = NoViewport

\* C28: on every failing create path, the unsupported-kind path included, the
\* driver the call started is stopped exactly once: playwright.stop() is
\* invoked once, not zero times and not twice.
C28_DriverStoppedExactlyOnce ==
    \A p \in Callers :
        /\ Done(p, "start") /\ ret[p].kind = "raise"
        /\ Len(trace[p]) > 0 /\ trace[p][1].ok
        => Count(p, "playwright.stop") = 1

\* C29: an execute call on a live session with an action kind outside the
\* supported ones and a well-formed locator resolves and counts the element
\* first; with every count completing it does not raise: it returns
\* (False, screenshot) whether or not an element matched, having invoked only
\* element counts and the final screenshot, and no element operation.
C29_UnsupportedActionIsSoft ==
    \A p \in Callers :
        /\ Done(p, "execute") /\ LivePage(p)
        /\ call[p].action # "goto" /\ ElementOp(call[p].action) = ""
        /\ call[p].loc.type = "str" \/ IsStructured(call[p].loc)
        /\ ~Failed(p, {"element.count"})
        => /\ ret[p] = ReturnShot(FALSE, Len(trace[p]))
           /\ Len(trace[p]) >= 2
           /\ \A i \in 1..(Len(trace[p]) - 1) : trace[p][i].op = "element.count"
           /\ trace[p][Len(trace[p])].op = "page.screenshot"
           /\ ~Invoked(p, ElementOps)

\* a scroll (not a supported kind) through a selector that matches an element
\* has returned (False, screenshot)
C29_Witness ==
    \E p \in Callers :
        /\ Done(p, "execute") /\ LivePage(p) /\ call[p].action = "scroll"
        /\ call[p].loc = StrLocator /\ ~CountIsZero(p)
        /\ ret[p] = ReturnShot(FALSE, 2)

====
